---- MODULE Spec2Model ----
(***************************************************************************)
(* The streaming loop of the PIC32 USB audio example                        *)
(* (examples/pic32/src/main.rs, fn main, lines 113-143).                    *)
(*                                                                         *)
(* One iteration of `loop { ... }` is four steps, each an action:           *)
(*   Poll      usb_dev.poll(&mut [&mut usb_audio])              line 125    *)
(*   ReadOk /  usb_audio.read(&mut buf) and the counter          127-133   *)
(*   ReadErr                                                                *)
(*   AltCheck  the alternate-setting comparison and report       135-141   *)
(*   Write     usb_audio.write(sinetab_le).ok()                  line 142   *)
(* The results of poll, read and write and the host-selected alternate      *)
(* settings come from the USB stack and are drawn from small sets.          *)
(*                                                                         *)
(* usb_audio is built with an input and an output stream (lines 87-101),   *)
(* so in Spec both alternate-setting accessors return a setting.           *)
(* SpecUnestablished adds AltPanic: an accessor returns an error and its   *)
(* unwrap() panics; the panic handler is panic_halt (line 15).             *)
(***************************************************************************)
EXTENDS Integers, Sequences, FiniteSets, TLC

(* ------------------------------ bounds --------------------------------- *)

\* Successful reads in one run (caps the history counter nOk).
MaxReads == 1001

\* Largest alternate setting the host selects (0 = inactive).
MaxAlt == 1

\* Largest packet length a read returns.
MaxLen == 1

(* ------------------------- program constants --------------------------- *)

\* `if ctr >= 1000`
Threshold == 1000

\* `let mut buf = [0u8; 1024]`
BufSize == 1024

\* `*const [u8; 96]`
ByteViewLen == 96

\* The table scaled by 32768 instead of 32767: the negative peak is -32768.
sinetab_scaled ==
  << 0, 4277, 8481, 12540, 16384, 19948, 23170, 25997, 28378, 30274, 31651,
     32488, 32767, 32488, 31651, 30274, 28378, 25997, 23170, 19948, 16384,
     12540, 8481, 4277, 0, -4277, -8481, -12540, -16384, -19948, -23170,
     -25997, -28378, -30274, -31651, -32488, -32768, -32488, -31651, -30274,
     -28378, -25997, -23170, -19948, -16384, -12540, -8481, -4277 >>

\* `let sinetab: [i16; 48] = [...]`
sinetab ==
  << 0, 4276, 8480, 12539, 16383, 19947, 23169, 25995, 28377, 30272, 31650,
     32486, 32767, 32486, 31650, 30272, 28377, 25995, 23169, 19947, 16383,
     12539, 8480, 4276, 0, -4276, -8480, -12539, -16383, -19947, -23169,
     -25995, -28377, -30272, -31650, -32486, -32767, -32486, -31650, -30272,
     -28377, -25995, -23169, -19947, -16383, -12539, -8480, -4276 >>

\* The two's-complement bit pattern of an i16, as an unsigned 16-bit number.
Bits16(s) == (s + 65536) % 65536

\* The byte view with the high byte first (what a big-endian layout gives).
sinetab_be ==
  [k \in 1..(2 * Len(sinetab)) |->
     IF k % 2 = 1 THEN Bits16(sinetab[(k + 1) \div 2]) \div 256
                  ELSE Bits16(sinetab[k \div 2]) % 256]

\* `&*(&sinetab as *const _ as *const [u8; 96])` on the little-endian PIC32:
\* the in-memory bytes of the array, low byte of each sample first.
sinetab_le ==
  [k \in 1..(2 * Len(sinetab)) |->
     IF k % 2 = 1 THEN Bits16(sinetab[(k + 1) \div 2]) % 256
                  ELSE Bits16(sinetab[k \div 2]) \div 256]

(* ------------------------- environment outcomes ------------------------ *)

\* Alternate settings the host can select per direction.
AltSettings == 0..MaxAlt

\* Packet lengths a successful read returns.
ReadLens == 0..MaxLen

\* Failures of read: nothing to read, or any other error.
ReadErrors == {"WouldBlock", "Other"}

\* Results of write: accepted, or not accepted (queue full, stream inactive).
WriteResults == {"ok", "err"}

\* The direction whose alternate-setting accessor fails.
Directions == {"input", "output"}

(* ------------------------------- state --------------------------------- *)

VARIABLES
  pc,                  \* position in the loop: "poll", "read", "alt", "write", "halted"
  ctr,                 \* `let mut ctr = 0`
  input_alt_setting,   \* `let mut input_alt_setting = 0`
  output_alt_setting,  \* `let mut output_alt_setting = 0`
  usb_in_alt,          \* usb_audio: alternate setting of the input stream
  usb_out_alt,         \* usb_audio: alternate setting of the output stream
  polled,              \* result of poll in the current iteration
  rd,                  \* result of read in the current iteration
  lines,               \* lines written to tx in the current iteration, in order
  nwrites,             \* calls of usb_audio.write in the latest iteration
  wr,                  \* result of the write of the latest iteration, "none" once
                       \* the next has begun
  wr_data,             \* payload of the latest write
  alt_err,             \* the accessor whose unwrap panicked ("none" if none did)
  started,             \* history: the loop has begun its first iteration
  nreads,              \* history: calls of usb_audio.read in the current iteration
  nalt,                \* history: alternate-setting checks in the current iteration
  nchanged,            \* history: directions whose setting this poll changed
  last_alt,            \* history: pair on the latest "Alt. set." line, << >> if none
  host_idle,           \* history: the host has left both settings at 0 so far
  nOk,                 \* history: successful reads so far
  nRx                  \* history: "RX len" lines so far

vars == << pc, ctr, input_alt_setting, output_alt_setting, usb_in_alt,
           usb_out_alt, polled, rd, lines, nwrites, wr, wr_data, alt_err,
           started, nreads, nalt, nchanged, last_alt, host_idle, nOk, nRx >>

NoRead == [kind |-> "none", len |-> 0]

\* `writeln!(tx, "Alt. set. {} {}", input_alt_setting, output_alt_setting)`
AltLine(i, o) == [kind |-> "Alt. set.", a |-> i, b |-> o]

Init ==
  /\ pc = "poll"
  /\ ctr = 0
  /\ input_alt_setting = 0
  /\ output_alt_setting = 0
  /\ usb_in_alt = 0
  /\ usb_out_alt = 0
  /\ polled = FALSE
  /\ rd = NoRead
  /\ lines = << >>
  /\ nwrites = 0
  /\ wr = "none"
  /\ wr_data = << >>
  /\ alt_err = "none"
  /\ started = FALSE
  /\ nreads = 0
  /\ nalt = 0
  /\ nchanged = 0
  /\ last_alt = << >>
  /\ host_idle = TRUE
  /\ nOk = 0
  /\ nRx = 0

(* ------------------------------ actions -------------------------------- *)

\* `if usb_dev.poll(..) { read ; <alt check> }` with the check inside the if.
AfterPollCheckInside(act) == IF act THEN "read" ELSE "write"

\* `if usb_dev.poll(..) {` replaced by an unconditional read.
AfterPollAlwaysRead(act) == "read"

\* `if usb_dev.poll(&mut [&mut usb_audio]) {`: the read is inside the if,
\* the alternate-setting check follows it.
AfterPoll(act) == IF act THEN "read" ELSE "alt"

\* A new iteration starts: poll services the bus (the host may select other
\* alternate settings, a reset clears them) and reports activity or not.
Poll(act, i, o) ==
  /\ pc = "poll"
  /\ usb_in_alt' = i
  /\ usb_out_alt' = o
  /\ polled' = act
  /\ nwrites' = 0
  /\ started' = TRUE
  /\ host_idle' = (host_idle /\ i = 0 /\ o = 0)
  /\ nchanged' = (IF i # usb_in_alt THEN 1 ELSE 0)
                   + (IF o # usb_out_alt THEN 1 ELSE 0)
  /\ wr' = "none"
  /\ pc' = AfterPoll(act)
  /\ UNCHANGED << ctr, input_alt_setting, output_alt_setting, rd, lines,
                  wr_data, alt_err, nreads, nalt, nOk, nRx >>
  /\ UNCHANGED << last_alt >>

\* `if ctr > 1000`
CrossedGt(c) == c > Threshold

\* `if ctr >= 1000`
Crossed(c) == c >= Threshold

\* `writeln!(tx, "RX len = {}", buf.len())`
RxLineBuf(len) == [kind |-> "RX len", a |-> BufSize, b |-> 0]

\* `writeln!(tx, "RX len = {}", len)`
RxLine(len) == [kind |-> "RX len", a |-> len, b |-> 0]

\* `Ok(len)`: count it; every 1000th resets the counter and reports len.
ReadOk(len) ==
  /\ pc = "read"
  /\ nOk < MaxReads
  /\ rd' = [kind |-> "ok", len |-> len]
  /\ nreads' = nreads + 1
  /\ nOk' = nOk + 1
  /\ IF Crossed(ctr + 1)
       THEN /\ ctr' = 0
            /\ lines' = Append(lines, RxLine(len))
            /\ nRx' = nRx + 1
       ELSE /\ ctr' = ctr + 1
            /\ UNCHANGED << lines, nRx >>
  /\ pc' = "alt"
  /\ UNCHANGED << input_alt_setting, output_alt_setting, usb_in_alt,
                  usb_out_alt, polled, nwrites, wr, wr_data, alt_err, started,
                  nalt, nchanged >>
  /\ UNCHANGED << last_alt, host_idle >>

\* `ctr += 1` placed before the `if let Ok(len)`: a failed read is counted.
ReadErrCounted(e) ==
  /\ pc = "read"
  /\ rd' = [kind |-> e, len |-> 0]
  /\ nreads' = nreads + 1
  /\ ctr' = (ctr + 1) % Threshold
  /\ pc' = "alt"
  /\ UNCHANGED << input_alt_setting, output_alt_setting, usb_in_alt,
                  usb_out_alt, polled, lines, nwrites, wr, wr_data, alt_err,
                  started, nalt, nchanged, nOk, nRx >>
  /\ UNCHANGED << last_alt, host_idle >>

\* A failed read after which the streams are taken to be inactive.
ReadErrResets(e) ==
  /\ pc = "read"
  /\ rd' = [kind |-> e, len |-> 0]
  /\ nreads' = nreads + 1
  /\ usb_in_alt' = 0
  /\ usb_out_alt' = 0
  /\ pc' = "alt"
  /\ UNCHANGED << ctr, input_alt_setting, output_alt_setting, polled, lines,
                  nwrites, wr, wr_data, alt_err, started, nalt, nchanged, nOk,
                  nRx >>
  /\ UNCHANGED << last_alt, host_idle >>

\* `if let Ok(len) = ...` does not match: nothing happens.
ReadErr(e) ==
  /\ pc = "read"
  /\ rd' = [kind |-> e, len |-> 0]
  /\ nreads' = nreads + 1
  /\ pc' = "alt"
  /\ UNCHANGED << ctr, input_alt_setting, output_alt_setting, usb_in_alt,
                  usb_out_alt, polled, lines, nwrites, wr, wr_data, alt_err,
                  started, nalt, nchanged, nOk, nRx >>
  /\ UNCHANGED << last_alt, host_idle >>

\* `&&` in place of `||`.
ChangedBoth(i, o) == input_alt_setting # i /\ output_alt_setting # o

\* `input_alt_setting != .. || output_alt_setting != ..`
Changed(i, o) == input_alt_setting # i \/ output_alt_setting # o

\* The check placed ahead of the read: its line comes before the "RX len" line.
AltCheckLineFirst ==
  /\ pc = "alt"
  /\ nalt' = nalt + 1
  /\ IF Changed(usb_in_alt, usb_out_alt)
       THEN /\ input_alt_setting' = usb_in_alt
            /\ output_alt_setting' = usb_out_alt
            /\ lines' = << AltLine(usb_in_alt, usb_out_alt) >> \o lines
            /\ last_alt' = << usb_in_alt, usb_out_alt >>
       ELSE UNCHANGED << input_alt_setting, output_alt_setting, lines,
                         last_alt >>
  /\ pc' = "write"
  /\ UNCHANGED << ctr, usb_in_alt, usb_out_alt, polled, rd, nwrites, wr,
                  wr_data, alt_err, started, nreads, nchanged, host_idle,
                  nOk, nRx >>

\* `ctr = 0` added to the body of the check: a change restarts the count.
AltCheckResetsCtr ==
  /\ pc = "alt"
  /\ nalt' = nalt + 1
  /\ IF Changed(usb_in_alt, usb_out_alt)
       THEN /\ input_alt_setting' = usb_in_alt
            /\ output_alt_setting' = usb_out_alt
            /\ lines' = Append(lines, AltLine(usb_in_alt, usb_out_alt))
            /\ last_alt' = << usb_in_alt, usb_out_alt >>
            /\ ctr' = 0
       ELSE UNCHANGED << input_alt_setting, output_alt_setting, lines,
                         last_alt, ctr >>
  /\ pc' = "write"
  /\ UNCHANGED << usb_in_alt, usb_out_alt, polled, rd, nwrites, wr,
                  wr_data, alt_err, started, nreads, nchanged, host_idle,
                  nOk, nRx >>

\* The check with line 139 left out: the output snapshot is never stored.
AltCheckInputOnly ==
  /\ pc = "alt"
  /\ nalt' = nalt + 1
  /\ IF Changed(usb_in_alt, usb_out_alt)
       THEN /\ input_alt_setting' = usb_in_alt
            /\ lines' = Append(lines, AltLine(usb_in_alt, output_alt_setting))
            /\ last_alt' = << usb_in_alt, output_alt_setting >>
       ELSE UNCHANGED << input_alt_setting, lines, last_alt >>
  /\ pc' = "write"
  /\ UNCHANGED << ctr, output_alt_setting, usb_in_alt, usb_out_alt, polled,
                  rd, nwrites, wr, wr_data, alt_err, started, nreads,
                  nchanged, host_idle, nOk, nRx >>

\* The alternate-setting check, both accessors returning a setting.
AltCheck ==
  /\ pc = "alt"
  /\ nalt' = nalt + 1
  /\ IF Changed(usb_in_alt, usb_out_alt)
       THEN /\ input_alt_setting' = usb_in_alt
            /\ output_alt_setting' = usb_out_alt
            /\ lines' = Append(lines, AltLine(usb_in_alt, usb_out_alt))
            /\ last_alt' = << usb_in_alt, usb_out_alt >>
       ELSE UNCHANGED << input_alt_setting, output_alt_setting, lines,
                         last_alt >>
  /\ pc' = "write"
  /\ UNCHANGED << ctr, usb_in_alt, usb_out_alt, polled, rd, nwrites, wr,
                  wr_data, alt_err, started, nreads, nchanged, host_idle,
                  nOk, nRx >>

\* `.unwrap_or(..)` in place of `.unwrap()`: the error is ignored.
AltErrIgnored(dir) ==
  /\ pc = "alt"
  /\ nalt' = nalt + 1
  /\ alt_err' = dir
  /\ pc' = "write"
  /\ UNCHANGED << ctr, input_alt_setting, output_alt_setting, usb_in_alt,
                  usb_out_alt, polled, rd, lines, nwrites, wr, wr_data,
                  started, nreads, nchanged, nOk, nRx >>
  /\ UNCHANGED << last_alt, host_idle >>

\* The accessor of direction dir returns an error and `.unwrap()` panics.
\* The input accessor is called first (line 135).  The output accessor is
\* called at line 136 when the input is unchanged (`||` short-circuits
\* otherwise), else at line 139, after line 138 has assigned
\* input_alt_setting.  panic_halt stops the processor: no line, no write.
AltPanic(dir) ==
  /\ pc = "alt"
  /\ nalt' = nalt + 1
  /\ alt_err' = dir
  /\ input_alt_setting' =
       IF dir = "output" /\ input_alt_setting # usb_in_alt
         THEN usb_in_alt
         ELSE input_alt_setting
  /\ pc' = "halted"
  /\ UNCHANGED << ctr, output_alt_setting, usb_in_alt, usb_out_alt, polled,
                  rd, lines, nwrites, wr, wr_data, started, nreads, nchanged, nOk, nRx >>
  /\ UNCHANGED << last_alt, host_idle >>

\* The closing brace of `loop { .. }`: the record of the iteration (what poll
\* and read returned, the lines written, the settings seen before) ends.
EndIteration ==
  /\ polled' = FALSE
  /\ rd' = NoRead
  /\ lines' = << >>
  /\ nreads' = 0
  /\ nalt' = 0
  /\ nchanged' = 0

\* `if input_alt_setting != 0 { usb_audio.write(..) }`: no write while inactive.
WriteWhenActive(res) ==
  /\ pc = "write"
  /\ IF usb_in_alt = 0
       THEN UNCHANGED << nwrites, wr, wr_data >>
       ELSE /\ nwrites' = nwrites + 1
            /\ wr' = res
            /\ wr_data' = sinetab_le
  /\ pc' = "poll"
  /\ EndIteration
  /\ UNCHANGED << ctr, input_alt_setting, output_alt_setting, usb_in_alt,
                  usb_out_alt, alt_err, started, nOk, nRx >>
  /\ UNCHANGED << last_alt, host_idle >>

\* `usb_audio.write(&sinetab_le[2 * ctr % 96..])`: the payload starts at an
\* offset that follows the counter.
WriteFromOffset(res) ==
  /\ pc = "write"
  /\ nwrites' = nwrites + 1
  /\ wr' = res
  /\ wr_data' = SubSeq(sinetab_le, ((2 * ctr) % ByteViewLen) + 1, ByteViewLen)
  /\ pc' = "poll"
  /\ EndIteration
  /\ UNCHANGED << ctr, input_alt_setting, output_alt_setting, usb_in_alt,
                  usb_out_alt, alt_err, started, nOk, nRx >>
  /\ UNCHANGED << last_alt, host_idle >>

\* `usb_audio.write(sinetab_le).unwrap()`: a failed write panics.
WriteUnwrap(res) ==
  /\ pc = "write"
  /\ nwrites' = nwrites + 1
  /\ wr' = res
  /\ wr_data' = sinetab_le
  /\ pc' = IF res = "ok" THEN "poll" ELSE "halted"
  /\ EndIteration
  /\ UNCHANGED << ctr, input_alt_setting, output_alt_setting, usb_in_alt,
                  usb_out_alt, alt_err, started, nOk, nRx >>
  /\ UNCHANGED << last_alt, host_idle >>

\* `usb_audio.write(sinetab_le).ok();`: the result is dropped.
Write(res) ==
  /\ pc = "write"
  /\ nwrites' = nwrites + 1
  /\ wr' = res
  /\ wr_data' = sinetab_le
  /\ pc' = "poll"
  /\ EndIteration
  /\ UNCHANGED << ctr, input_alt_setting, output_alt_setting, usb_in_alt,
                  usb_out_alt, alt_err, started, nOk, nRx >>
  /\ UNCHANGED << last_alt, host_idle >>

Next ==
  \/ \E act \in BOOLEAN, i \in AltSettings, o \in AltSettings : Poll(act, i, o)
  \/ \E len \in ReadLens : ReadOk(len)
  \/ \E e \in ReadErrors : ReadErr(e)
  \/ AltCheck
  \/ \E res \in WriteResults : Write(res)

Spec == Init /\ [][Next]_vars

\* The loop is the only flow of control and none of its calls blocks.
FairSpec == Spec /\ WF_vars(Next)

NextUnestablished ==
  \/ Next
  \/ \E dir \in Directions : AltPanic(dir)

\* The loop with alternate-setting accessors that can fail.
SpecUnestablished == Init /\ [][NextUnestablished]_vars

(* ----------------------------- properties ------------------------------ *)

IsRx(l) == l.kind = "RX len"

IsAlt(l) == l.kind = "Alt. set."

\* The "RX len" lines among s, in order.
RxLines(s) == SelectSeq(s, IsRx)

\* The "Alt. set." lines among s, in order.
AltLines(s) == SelectSeq(s, IsAlt)

\* An iteration has run to its end.
IterDone == pc = "poll" /\ started

\* The alternate settings the accessors return in the current iteration.
Observed == << usb_in_alt, usb_out_alt >>

\* The observed pair differs from the pair observed in the previous
\* iteration (<< 0, 0 >>, the initial snapshot, in the first).
PairChanged == nchanged > 0

\* i16::from_le_bytes([lo, hi])
FromLE(lo, hi) ==
  IF lo + 256 * hi >= 32768 THEN lo + 256 * hi - 65536 ELSE lo + 256 * hi

\* C1: after N successful reads, however they are interleaved with
\* iterations whose poll is false or whose read fails, the counter is
\* N mod 1000 and floor(N / 1000) "RX len" lines have been emitted.
C1_CounterIsModulo ==
  /\ ctr = nOk % Threshold
  /\ nRx = nOk \div Threshold

W1_OneLineAfterThousandAndOne ==
  /\ nOk = Threshold + 1
  /\ ctr = 1
  /\ nRx = 1
  /\ rd.kind = "ok"

\* C2: an iteration emits an "RX len" line exactly when its read is the
\* 1000th success since the last reset; the line carries the length that
\* read returned and the counter is 0 from then on in the iteration; after
\* exactly 1000 successes exactly one line has been emitted.
C2_RxLineIsThatRead ==
  /\ Len(RxLines(lines)) <= 1
  /\ Len(RxLines(lines)) = 1 <=>
       (rd.kind = "ok" /\ nOk > 0 /\ nOk % Threshold = 0)
  /\ Len(RxLines(lines)) = 1 =>
       /\ RxLines(lines)[1].a = rd.len
       /\ ctr = 0
  /\ nOk = Threshold => nRx = 1

W2_LineCarriesLength ==
  /\ pc = "alt"
  /\ nOk = Threshold
  /\ rd = [kind |-> "ok", len |-> 1]
  /\ lines = << [kind |-> "RX len", a |-> 1, b |-> 0] >>
  /\ ctr = 0

\* C3: once the check of an iteration has run, the iteration holds one
\* "Alt. set." line, carrying the observed pair (input, output), if the
\* observed pair differs from the pair observed in the previous iteration,
\* and no such line if it does not.
C3_AltLineIffChanged ==
  pc = "write" =>
    AltLines(lines) =
      IF PairChanged
        THEN << AltLine(usb_in_alt, usb_out_alt) >>
        ELSE << >>

W3_BothChangeOneLine ==
  /\ pc = "write"
  /\ nchanged = 2
  /\ Observed = << 1, 1 >>
  /\ lines = << AltLine(1, 1) >>

\* C4: every iteration calls write exactly once, whatever poll, read, the
\* alternate settings and the earlier write gave; the write step leaves the
\* counter and the snapshot alone and always leads to the next poll.
C4_WriteEveryIteration ==
  /\ [](nwrites = IF IterDone THEN 1 ELSE 0)
  /\ [][pc = "write" =>
          /\ pc' = "poll"
          /\ nwrites' = nwrites + 1
          /\ UNCHANGED << ctr, input_alt_setting, output_alt_setting >>]_vars

W4_FailedWriteWhileInactive ==
  /\ IterDone
  /\ nwrites = 1
  /\ wr = "err"
  /\ Observed = << 0, 0 >>

\* C5: an iteration calls read at most once, and only if its poll returned
\* true; with poll false no read is attempted.
C5_ReadOnlyAfterPoll ==
  /\ nreads <= 1
  /\ nreads = 1 => polled
  /\ pc = "read" => polled /\ nreads = 0
  /\ ~polled => nreads = 0 /\ rd = NoRead

W5_IterationWithoutRead ==
  /\ pc = "write"
  /\ ~polled
  /\ nreads = 0
  /\ nalt = 1
  /\ nOk = 1

\* C6: only a successful read changes the counter or emits an "RX len"
\* line: every other step (poll, a read returning no data or another error,
\* the check, the write) leaves the counter and the line count alone and
\* the loop goes on; after the first success, however many iterations
\* preceded it, the counter is 1 and no line has been emitted.
C6_CountsSuccessesOnly ==
  /\ [][(pc # "read" \/ rd'.kind # "ok") =>
          /\ ctr' = ctr
          /\ nRx' = nRx
          /\ Len(RxLines(lines')) <= Len(RxLines(lines))
          /\ pc' # "halted"]_vars
  /\ [](nOk = 1 => ctr = 1 /\ nRx = 0)

W6_ErrorAfterFirstSuccess ==
  /\ pc = "write"
  /\ rd.kind = "Other"
  /\ nOk = 1
  /\ ctr = 1
  /\ nRx = 0

\* C7: the alternate-setting check runs once in every iteration, also when
\* poll returned false: a changed pair is then reported and the snapshot
\* updated in that same iteration.
C7_AltCheckEveryIteration ==
  pc = "write" =>
    /\ nalt = 1
    /\ (~polled /\ PairChanged) =>
         /\ lines = << AltLine(usb_in_alt, usb_out_alt) >>
         /\ << input_alt_setting, output_alt_setting >> = Observed

W7_ChangeDetectedWithoutActivity ==
  /\ pc = "write"
  /\ ~polled
  /\ nchanged = 1
  /\ lines = << AltLine(1, 0) >>
  /\ input_alt_setting = 1

\* C8 as stated: an error from an alternate-setting accessor is ignored; the
\* loop does not halt, emits nothing for it and goes on to the write.
C8_AccessorErrorIgnored ==
  alt_err # "none" =>
    /\ pc \in {"write", "poll"}
    /\ AltLines(lines) = << >>

\* C8 amended: an error from an alternate-setting accessor is not ignored:
\* the unwrap panics and the loop halts for good.  Nothing is emitted for
\* it, no write is attempted in that iteration, and the counter and the
\* output snapshot are kept; the input snapshot is kept too, unless the
\* output accessor fails after a changed input setting was stored.
C8_AccessorErrorHalts ==
  /\ [](alt_err # "none" =>
          /\ pc = "halted"
          /\ nwrites = 0
          /\ AltLines(lines) = << >>)
  /\ [][alt_err' # "none" =>
          /\ UNCHANGED << ctr, output_alt_setting, lines, nwrites, wr >>
          /\ \/ input_alt_setting' = input_alt_setting
             \/ alt_err' = "output" /\ input_alt_setting' = usb_in_alt]_vars
  /\ [][pc = "halted" => UNCHANGED vars]_vars

W8_HaltedAfterOutputError ==
  /\ pc = "halted"
  /\ alt_err = "output"
  /\ nchanged = 2
  /\ Observed = << 1, 1 >>
  /\ input_alt_setting = 1
  /\ output_alt_setting = 0
  /\ lines = << >>

C10_ByteViewRoundTrips ==
  (IterDone /\ nwrites = 1) =>
    /\ Len(wr_data) = ByteViewLen
    /\ Len(wr_data) = 2 * Len(sinetab)
    /\ \A i \in 0..(Len(sinetab) - 1) :
         FromLE(wr_data[2 * i + 1], wr_data[2 * i + 2]) = sinetab[i + 1]

W10_NegativePeakBytes ==
  /\ IterDone
  /\ wr = "ok"
  /\ sinetab[37] = -32767
  /\ wr_data[73] = 1
  /\ wr_data[74] = 128

\* C11: every sample of the table lies in [-32767, 32767], so its negation
\* fits in 16 bits, and the table is antisymmetric about its midpoint:
\* sample i = -(sample i+24) for i in 0..23 (looked at when the table has
\* been handed to write).
C11_TableRangeAndAntisymmetry ==
  (IterDone /\ nwrites = 1) =>
    /\ Len(sinetab) = 48
    /\ \A i \in 1..Len(sinetab) :
         /\ sinetab[i] >= -32767
         /\ sinetab[i] <= 32767
         /\ FromLE(Bits16(-sinetab[i]) % 256, Bits16(-sinetab[i]) \div 256)
              = -sinetab[i]
    /\ \A i \in 1..(Len(sinetab) \div 2) :
         sinetab[i] = -sinetab[i + Len(sinetab) \div 2]

W11_PeaksWritten ==
  /\ IterDone
  /\ nwrites = 1
  /\ sinetab[13] = 32767
  /\ sinetab[37] = -32767
  /\ wr_data[25] = 255
  /\ wr_data[26] = 127

C13_CounterInRange ==
  /\ ctr >= 0
  /\ ctr <= Threshold - 1
  /\ ctr <= 2147483647

W13_CounterAtMaximum ==
  /\ IterDone
  /\ ctr = Threshold - 1
  /\ nRx = 0

\* The pair on the most recent "Alt. set." line, << 0, 0 >> if there is none.
LastPrinted == IF last_alt = << >> THEN << 0, 0 >> ELSE last_alt

\* C14: when the write is attempted the snapshot equals the current
\* (input, output) settings and the pair on the most recent "Alt. set."
\* line (<< 0, 0 >> if none was printed); so no such line is emitted while
\* the host leaves both settings at 0 from startup.
C14_SnapshotCurrentAtWrite ==
  /\ pc = "write" =>
       /\ << input_alt_setting, output_alt_setting >> = Observed
       /\ LastPrinted = << input_alt_setting, output_alt_setting >>
  /\ host_idle => last_alt = << >> /\ AltLines(lines) = << >>

W14_SnapshotFromEarlierLine ==
  /\ pc = "write"
  /\ lines = << >>
  /\ last_alt = << 0, 1 >>
  /\ << input_alt_setting, output_alt_setting >> = << 0, 1 >>
  /\ ~host_idle

\* C15: the steps of an iteration come in the order poll, read (if poll
\* returned true), check, write: each step hands over to the next one only,
\* the check runs after the read and the write after the check; an
\* iteration holds at most one line of each kind, and when it holds both the
\* "RX len" line is first.
C15_StepAndLineOrder ==
  /\ [][/\ pc = "poll" => pc' = (IF polled' THEN "read" ELSE "alt")
        /\ pc = "read" => pc' = "alt"
        /\ pc = "alt" => pc' = "write"
        /\ pc = "write" => pc' = "poll"
        /\ nalt' > nalt => nreads = (IF polled THEN 1 ELSE 0) /\ nwrites = 0
        /\ nwrites' > nwrites => nalt = 1]_vars
  /\ [](/\ Len(RxLines(lines)) <= 1
        /\ Len(AltLines(lines)) <= 1
        /\ Len(lines) = 2 => IsRx(lines[1]) /\ IsAlt(lines[2]))

W15_BothLinesInOneIteration ==
  /\ pc = "write"
  /\ Len(lines) = 2
  /\ lines[1] = [kind |-> "RX len", a |-> 1, b |-> 0]
  /\ lines[2] = AltLine(1, 1)
  /\ nalt = 1

\* C16: every write is offered the same complete 96-byte view of the
\* table, whole and from its first byte, whatever the counter, the
\* alternate settings and the results of earlier writes are.
C16_PayloadIsWholeView ==
  (IterDone /\ nwrites = 1) =>
    /\ Len(wr_data) = ByteViewLen
    /\ wr_data = sinetab_le

W16_WholeViewAfterCounting ==
  /\ IterDone
  /\ nwrites = 1
  /\ wr = "err"
  /\ ctr = 7
  /\ Observed = << 1, 0 >>
  /\ Len(wr_data) = 96
  /\ wr_data[2] = 0
  /\ wr_data[3] = 180

\* C17: the read step, successful or not and with its "RX len" report,
\* never changes the alternate-setting snapshot; the check and the write
\* never change the counter.
C17_CounterAndSnapshotFrames ==
  /\ [][pc = "read" =>
          UNCHANGED << input_alt_setting, output_alt_setting >>]_vars
  /\ [][(pc = "alt" \/ pc = "write") => UNCHANGED ctr]_vars

W17_CountKeptAcrossChange ==
  /\ pc = "write"
  /\ rd.kind = "ok"
  /\ nchanged = 2
  /\ lines = << AltLine(1, 1) >>
  /\ ctr = 2
  /\ nOk = 2

====
